---- MODULE Spec2Model ----
(***************************************************************************)
(* Diabetes Care API (api.py): the process-wide data cache, the           *)
(* filter_data helper and the analysis handlers built on it.              *)
(*                                                                         *)
(* Spec             sequential use of the cache (one call at a time)       *)
(* SpecConc         calls of several worker threads interleaved            *)
(* SpecFilter       filter_data and /time-periods                          *)
(* SpecAnalysis     /data, /summary and /rankings                          *)
(* SpecRankings     /rankings                                              *)
(* SpecTopBottom    /rankings?n=5, top then bottom                         *)
(* SpecCorrelation  /correlation                                           *)
(***************************************************************************)
EXTENDS Integers, Sequences, FiniteSets, TLC

VARIABLES
    cache,      \* _cache: cache key -> dataset (api.py:121)
    fetches,    \* history: upstream calls made per key since the last clear
    okFetches,  \* history: upstream calls that succeeded, per key, since the last clear
    firstRet,   \* history: per key, the dataset first returned since the last clear
    failedLast, \* history: per key, whether the latest call for it failed
    fresh,      \* history: no cached getter has run since the last clear_cache
    cleared,    \* history: number of entries the last clear_cache dropped
    last,       \* history: the latest completed call and its outcome
    pc,         \* per worker thread: position inside get_indicator_data
    tkey,       \* per worker thread: the cache key of the call in progress
    tval,       \* per worker thread: the value the upstream call returned
    tres,       \* per worker thread: outcome of its latest completed call
    source,     \* the rows the upstream source serves for the indicator queried
    resp,       \* the latest response of a query handler
    seenLatest  \* history: per area type, the "latest" /time-periods last reported

cacheVars == <<cache, fetches, okFetches, firstRet, failedLast, fresh, cleared, last>>
threadVars == <<pc, tkey, tval, tres>>
queryVars == <<source, resp, seenLatest>>
vars == <<cacheVars, threadVars, queryVars>>

----------------------------------------------------------------------------
(* Bounds of the model *)

\* distinct snapshots the upstream source can serve for one key
MaxSnap == 2
\* upstream calls explored per key between two clears
MaxFetches == 3
\* worker threads handling requests at the same time
NThreads == 2

----------------------------------------------------------------------------
(* The cache and its keys *)

Missing == <<>>
Some(v) == <<v>>

\* f"indicator_{indicator_id}" for two of the catalogue's ids
IndicatorIDs == {94146, 94147}

cache_key(indicator_id) == <<"indicator", indicator_id>>

BoundariesKey == <<"boundaries">>

Keys == {cache_key(i) : i \in IndicatorIDs} \cup {BoundariesKey}

\* a dataset as served by the upstream source for key k
Dataset(k, s) == [key |-> k, snap |-> s]

\* the upstream call: it raises (Missing) or returns one complete dataset
FetchOutcomes(k) == {Missing} \cup {Some(Dataset(k, s)) : s \in 1..MaxSnap}

EmptyCache == [k \in {} |-> Missing]

AlwaysMiss(c, k) == TRUE

\* `cache_key not in _cache`
CacheMiss(c, k) == k \notin DOMAIN c

\* `_cache[cache_key] = value`
StoreEntry(c, k, v) == [x \in DOMAIN c \cup {k} |-> IF x = k THEN v ELSE c[x]]

StoreMarkerOnFailure(c, k) == [x \in DOMAIN c \cup {k} |-> IF x = k THEN Dataset(k, 0) ELSE c[x]]

\* the upstream call raised: the assignment of line 132/139 never runs
AfterFailedFetch(c, k) == c

ClearIndicatorsOnly(c) == [x \in DOMAIN c \cap {BoundariesKey} |-> c[x]]

\* `_cache.clear()`
ClearedCache(c) == EmptyCache

\* `len(_cache)`
cache_size(c) == Cardinality(DOMAIN c)

NoCall == [op |-> "none", key |-> BoundariesKey, outcome |-> "none", result |-> Missing,
           attempts |-> 0, size |-> 0, before |-> EmptyCache, served |-> FALSE,
           firstAfterClear |-> FALSE, prevFailed |-> FALSE]

----------------------------------------------------------------------------
(* Sequential calls *)

\* get_indicator_data / get_boundaries run to completion for key k
CachedGet(k, op) ==
    LET call == [NoCall EXCEPT !.op = op, !.key = k, !.before = cache,
                               !.served = (firstRet[k] # Missing),
                               !.firstAfterClear = fresh,
                               !.prevFailed = failedLast[k]]
    IN  /\ fresh' = FALSE
        /\ UNCHANGED <<cleared, threadVars, queryVars>>
        /\ IF CacheMiss(cache, k)
             THEN /\ fetches[k] < MaxFetches
                  /\ fetches' = [fetches EXCEPT ![k] = @ + 1]
                  /\ \E f \in FetchOutcomes(k) :
                        IF f = Missing
                          THEN /\ cache' = AfterFailedFetch(cache, k)
                               /\ okFetches' = okFetches
                               /\ firstRet' = firstRet
                               /\ failedLast' = [failedLast EXCEPT ![k] = TRUE]
                               /\ last' = [call EXCEPT !.outcome = "UpstreamError",
                                                       !.attempts = 1]
                          ELSE /\ cache' = StoreEntry(cache, k, f[1])
                               /\ k \in DOMAIN cache'
                               /\ okFetches' = [okFetches EXCEPT ![k] = @ + 1]
                               /\ firstRet' = [firstRet EXCEPT ![k] =
                                                 IF @ = Missing THEN Some(cache'[k]) ELSE @]
                               /\ failedLast' = [failedLast EXCEPT ![k] = FALSE]
                               /\ last' = [call EXCEPT !.outcome = "ok",
                                                       !.result = Some(cache'[k]),
                                                       !.attempts = 1]
             ELSE /\ k \in DOMAIN cache
                  /\ UNCHANGED <<cache, fetches, okFetches>>
                  /\ firstRet' = [firstRet EXCEPT ![k] =
                                    IF @ = Missing THEN Some(cache[k]) ELSE @]
                  /\ failedLast' = [failedLast EXCEPT ![k] = FALSE]
                  /\ last' = [call EXCEPT !.outcome = "ok", !.result = Some(cache[k])]

get_indicator_data ==
    \E i \in IndicatorIDs : CachedGet(cache_key(i), "get_indicator_data")

get_boundaries ==
    CachedGet(BoundariesKey, "get_boundaries")

clear_cache ==
    /\ cache' = ClearedCache(cache)
    /\ fetches' = [k \in Keys |-> 0]
    /\ okFetches' = [k \in Keys |-> 0]
    /\ firstRet' = [k \in Keys |-> Missing]
    /\ failedLast' = [k \in Keys |-> FALSE]
    /\ fresh' = TRUE
    /\ cleared' = cache_size(cache)
    /\ last' = [NoCall EXCEPT !.op = "clear_cache", !.outcome = "ok", !.before = cache]
    /\ UNCHANGED <<threadVars, queryVars>>

health ==
    /\ last' = [NoCall EXCEPT !.op = "health", !.outcome = "ok",
                              !.size = cache_size(cache), !.before = cache,
                              !.firstAfterClear = fresh]
    /\ UNCHANGED <<cache, fetches, okFetches, firstRet, failedLast, fresh, cleared>>
    /\ UNCHANGED <<threadVars, queryVars>>

InitCache ==
    /\ cache = EmptyCache
    /\ fetches = [k \in Keys |-> 0]
    /\ okFetches = [k \in Keys |-> 0]
    /\ firstRet = [k \in Keys |-> Missing]
    /\ failedLast = [k \in Keys |-> FALSE]
    /\ fresh = FALSE
    /\ cleared = 0
    /\ last = NoCall

Threads == 1..NThreads

NoResult == [outcome |-> "none", key |-> BoundariesKey, result |-> Missing]

InitThreads ==
    /\ pc = [t \in Threads |-> "idle"]
    /\ tkey = [t \in Threads |-> BoundariesKey]
    /\ tval = [t \in Threads |-> Missing]
    /\ tres = [t \in Threads |-> NoResult]

AreaTypes == {"England", "ICBs", "ICB sub-locations", "GPs"}

NoResp == [op |-> "none"]

InitQuery ==
    /\ source = <<>>
    /\ resp = NoResp
    /\ seenLatest = [a \in AreaTypes |-> Missing]

Init == InitCache /\ InitThreads /\ InitQuery

Next == get_indicator_data \/ get_boundaries \/ clear_cache \/ health

Spec == Init /\ [][Next]_vars

----------------------------------------------------------------------------
(* Interleaved calls: the handlers are plain `def`s, which the framework   *)
(* runs on worker threads, so a thread can be preempted between the        *)
(* membership test, the upstream call, the store and the final lookup.     *)

histVars == <<fetches, okFetches, firstRet, failedLast, fresh, cleared, last, queryVars>>

\* line 131: thread t enters get_indicator_data(i) and tests the key
T_Test(t) ==
    /\ pc[t] = "idle"
    /\ \E i \in IndicatorIDs :
          /\ tkey' = [tkey EXCEPT ![t] = cache_key(i)]
          /\ pc' = [pc EXCEPT ![t] = IF CacheMiss(cache, cache_key(i)) THEN "fetch" ELSE "return"]
    /\ tval' = [tval EXCEPT ![t] = Missing]
    /\ UNCHANGED <<cache, tres, histVars>>

\* line 132, right-hand side: the upstream call returns or raises
T_Fetch(t) ==
    /\ pc[t] = "fetch"
    /\ \E f \in FetchOutcomes(tkey[t]) :
          IF f = Missing
            THEN /\ pc' = [pc EXCEPT ![t] = "idle"]
                 /\ tres' = [tres EXCEPT ![t] = [outcome |-> "UpstreamError",
                                                key |-> tkey[t], result |-> Missing]]
                 /\ UNCHANGED tval
            ELSE /\ pc' = [pc EXCEPT ![t] = "store"]
                 /\ tval' = [tval EXCEPT ![t] = f]
                 /\ UNCHANGED tres
    /\ UNCHANGED <<cache, tkey, histVars>>

\* line 132, the assignment
T_Store(t) ==
    /\ pc[t] = "store"
    /\ cache' = StoreEntry(cache, tkey[t], tval[t][1])
    /\ pc' = [pc EXCEPT ![t] = "return"]
    /\ UNCHANGED <<tkey, tval, tres, histVars>>

\* line 133: `return _cache[cache_key]`, a KeyError when the key is gone
T_Return(t) ==
    /\ pc[t] = "return"
    /\ tres' = [tres EXCEPT ![t] =
                  IF tkey[t] \in DOMAIN cache
                    THEN [outcome |-> "ok", key |-> tkey[t], result |-> Some(cache[tkey[t]])]
                    ELSE [outcome |-> "KeyError", key |-> tkey[t], result |-> Missing]]
    /\ pc' = [pc EXCEPT ![t] = "idle"]
    /\ UNCHANGED <<cache, tkey, tval, histVars>>

\* clear_cache on thread t: dict.clear() is one step
T_Clear(t) ==
    /\ pc[t] = "idle"
    /\ cache' = ClearedCache(cache)
    /\ tres' = [tres EXCEPT ![t] = [outcome |-> "cleared", key |-> BoundariesKey,
                                   result |-> Missing]]
    /\ UNCHANGED <<pc, tkey, tval, histVars>>

NextConc ==
    \E t \in Threads : T_Test(t) \/ T_Fetch(t) \/ T_Store(t) \/ T_Return(t) \/ T_Clear(t)

SpecConc == Init /\ [][NextConc]_vars

----------------------------------------------------------------------------
(* Datasets: one row per (area, time period). A missing cell (NaN / None) *)
(* is the empty sequence, a present one a sequence of length one.  Time    *)
(* periods and area names are strings, kept as sequences of characters;    *)
(* the characters of a time period are given by their code points, which   *)
(* is what Python's string comparison compares.                            *)

\* rows of a dataset, per specification
MaxFilterRows == 3
MaxRows == 2
MaxRankingRows == 4
MaxCorrelationRows == 4
MaxTopBottomRows == 10

\* the indicator the query handlers are called with
QueryID == 94146

Row(code, name, at, period, value, denom) ==
    [code |-> code, name |-> name, at |-> at, period |-> period,
     value |-> value, count |-> Missing, denom |-> denom]

\* the value the upstream call returns for the indicator: its rows
Fetched(k, rows) == [key |-> k, rows |-> rows]

\* all sequences over S of length at most n
SeqsUpTo(S, n) == UNION {[1..k -> S] : k \in 0..n}

\* Python's `a < b` on two strings
RECURSIVE LexLess(_, _)
LexLess(a, b) ==
    IF a = <<>> THEN b # <<>>
    ELSE IF b = <<>> THEN FALSE
    ELSE IF Head(a) # Head(b) THEN Head(a) < Head(b)
    ELSE LexLess(Tail(a), Tail(b))

\* df['Time period'].unique()
unique_periods(df) == {df[i].period : i \in 1..Len(df)}

FirstPeriod(df) == df[1].period

\* df['Time period'].max()
MaxPeriod(df) ==
    CHOOSE p \in unique_periods(df) : \A q \in unique_periods(df) : ~LexLess(p, q)

\* sorted(values, reverse=True)
RECURSIVE SortedReverse(_)
SortedReverse(S) ==
    IF S = {} THEN <<>>
    ELSE LET m == CHOOSE p \in S : \A q \in S : ~LexLess(p, q)
         IN  <<m>> \o SortedReverse(S \ {m})

NotFound(what, v) == [status |-> 404, detail |-> <<what, v>>, df |-> <<>>, period |-> Missing]

filter_data_period_first(data, area_type, time_period) ==
    LET byPeriod == IF time_period = Missing THEN data
                    ELSE SelectSeq(data, LAMBDA r : r.period = time_period[1])
        df == SelectSeq(byPeriod, LAMBDA r : r.at = area_type)
    IN  IF byPeriod = <<>> /\ time_period # Missing
          THEN NotFound("time period", time_period[1])
        ELSE IF df = <<>>
          THEN NotFound("area type", area_type)
        ELSE LET tp == IF time_period = Missing THEN Some(MaxPeriod(df)) ELSE time_period
                 df2 == SelectSeq(df, LAMBDA r : r.period = tp[1])
             IN  [status |-> 200, detail |-> <<>>, df |-> df2, period |-> tp]

filter_data_unchecked(data, area_type, time_period) ==
    LET df == SelectSeq(data, LAMBDA r : r.at = area_type)
    IN  IF df = <<>>
          THEN NotFound("area type", area_type)
          ELSE LET tp == IF time_period = Missing THEN Some(MaxPeriod(df)) ELSE time_period
               IN  [status |-> 200, detail |-> <<>>,
                    df |-> SelectSeq(df, LAMBDA r : r.period = tp[1]), period |-> tp]

\* filter_data(indicator_id, area_type, time_period) on the indicator's dataset
filter_data(data, area_type, time_period) ==
    LET df == SelectSeq(data, LAMBDA r : r.at = area_type)
    IN  IF df = <<>>
          THEN NotFound("area type", area_type)
          ELSE LET tp == IF time_period = Missing THEN Some(MaxPeriod(df)) ELSE time_period
                   df2 == SelectSeq(df, LAMBDA r : r.period = tp[1])
               IN  IF df2 = <<>>
                     THEN NotFound("time period", tp[1])
                     ELSE [status |-> 200, detail |-> <<>>, df |-> df2, period |-> tp]

\* the body of list_time_periods once the dataset is at hand
time_periods(data, area_type) ==
    LET df == SelectSeq(data, LAMBDA r : r.at = area_type)
        periods == SortedReverse(unique_periods(df))
    IN  [op |-> "time_periods", status |-> 200, area_type |-> area_type,
         time_periods |-> periods,
         latest |-> IF periods # <<>> THEN Some(periods[1]) ELSE Missing]

UpstreamError(op) == [op |-> op, status |-> 500, detail |-> <<"UpstreamError">>]

\* get_indicator_data(QueryID) as a handler calls it: the outcomes it can have on the
\* cache as it is, each with the cache it leaves behind
indicator_data ==
    LET k == cache_key(QueryID)
        stored == StoreEntry(cache, k, Fetched(k, source))
    IN  IF CacheMiss(cache, k)
          THEN {[ok |-> FALSE, cache |-> AfterFailedFetch(cache, k), rows |-> <<>>],
                [ok |-> TRUE, cache |-> stored, rows |-> stored[k].rows]}
          ELSE {[ok |-> TRUE, cache |-> cache, rows |-> cache[k].rows]}

\* A handler op answers one of `responses`, computed from the dataset `got` holds, or
\* lets the upstream error through
Respond(op, got, responses) ==
    /\ cache' = got.cache
    /\ resp' \in (IF got.ok THEN responses ELSE {UpstreamError(op)})
    /\ UNCHANGED <<fetches, okFetches, firstRet, failedLast, fresh, cleared, last>>
    /\ UNCHANGED <<threadVars, source>>

----------------------------------------------------------------------------
(* SpecFilter: filter_data and /time-periods on datasets whose rows differ *)
(* in area type and time period.                                           *)

\* "1", "10" and "2" as code points of their digits: "1" < "10" < "2"
Periods == {<<49>>, <<49, 48>>, <<50>>}

\* a time period no dataset holds
AbsentPeriod == <<57>>

FilterAreaTypes == {"ICBs", "GPs"}

RequestAreaTypes == {"ICBs", "GPs", "England"}

FilterDatasets ==
    {[i \in DOMAIN f |-> Row(i, <<"a">>, f[i][1], f[i][2], Some(50000), Some(100))] :
        f \in SeqsUpTo(FilterAreaTypes \X Periods, MaxFilterRows)}

\* filter_data as every handler calls it first
call_filter_data ==
    \E at \in RequestAreaTypes, tp \in {Missing, Some(AbsentPeriod)} \cup {Some(q) : q \in Periods} :
        /\ \E got \in indicator_data :
              Respond("filter_data", got,
                      {[op |-> "filter_data", area_type |-> at, time_period |-> tp]
                         @@ filter_data(got.rows, at, tp)})
        /\ UNCHANGED seenLatest

list_time_periods ==
    \E at \in RequestAreaTypes :
        /\ \E got \in indicator_data : Respond("time_periods", got, {time_periods(got.rows, at)})
        /\ seenLatest' = IF resp'.status = 200
                           THEN [seenLatest EXCEPT ![at] = Some(resp'.latest)]
                           ELSE seenLatest

InitFilter ==
    /\ InitCache
    /\ InitThreads
    /\ source \in FilterDatasets
    /\ resp = NoResp
    /\ seenLatest = [a \in AreaTypes |-> Missing]

NextFilter == call_filter_data \/ list_time_periods

SpecFilter == InitFilter /\ [][NextFilter]_vars

\* rows of the dataset served that have the area type of the latest request
RowsOfType == {i \in 1..Len(source) : source[i].at = resp.area_type}

\* C4: no row of the requested area type => NotFound for the area type, whatever
\* time_period is, with no time period resolved; NotFound for the time period only
\* when some row has the area type.
C4_AreaTypeFirst ==
    (resp.op = "filter_data" /\ resp.status # 500) =>
        /\ RowsOfType = {} =>
              /\ resp.status = 404
              /\ resp.detail = <<"area type", resp.area_type>>
              /\ resp.period = Missing
        /\ (resp.status = 404 /\ resp.detail[1] = "time period") => RowsOfType # {}

\* an area type without rows, asked with a time period that other rows do have
C4_Witness ==
    /\ resp.op = "filter_data"
    /\ resp.status = 404
    /\ RowsOfType = {}
    /\ resp.time_period # Missing
    /\ \E i \in 1..Len(source) : Some(source[i].period) = resp.time_period

\* C5: with rows of the area type and no time period given, filter_data resolves the
\* period to the greatest time-period string among those rows, returns exactly the rows
\* of that area type and period, never fails with NotFound, and the period is the
\* "latest" that /time-periods reports for the area type.
C5_DefaultsToLatest ==
    (/\ resp.op = "filter_data"
     /\ resp.status # 500
     /\ resp.time_period = Missing
     /\ RowsOfType # {}) =>
        /\ resp.status = 200
        /\ resp.period # Missing
        /\ \E i \in RowsOfType : source[i].period = resp.period[1]
        /\ \A i \in RowsOfType : ~LexLess(resp.period[1], source[i].period)
        /\ resp.df # <<>>
        /\ {resp.df[j] : j \in 1..Len(resp.df)}
              = {source[i] : i \in {x \in RowsOfType : source[x].period = resp.period[1]}}
        /\ Len(resp.df) = Cardinality({x \in RowsOfType : source[x].period = resp.period[1]})
        /\ seenLatest[resp.area_type] # Missing =>
              seenLatest[resp.area_type][1] = resp.period

\* the default resolved to "2" although "10" is present and comes first, after
\* /time-periods has answered for the same area type
C5_Witness ==
    /\ resp.op = "filter_data"
    /\ resp.status = 200
    /\ resp.time_period = Missing
    /\ resp.period = Some(<<50>>)
    /\ seenLatest[resp.area_type] # Missing
    /\ \E i \in RowsOfType : source[i].period = <<49, 48>>
    /\ source[1].period = <<49, 48>>

----------------------------------------------------------------------------
(* The analysis handlers.  A Value is a percentage in thousandths, so that *)
(* round(value, 2) has something to round; a rounded value is in           *)
(* hundredths.                                                             *)

notna(cell) == cell # Missing

\* round() dropping the last decimal digit kept by the model (ties to even)
RoundLastDigit(v) ==
    LET q == v \div 10
        r == v % 10
    IN  IF r < 5 THEN q
        ELSE IF r > 5 THEN q + 1
        ELSE IF q % 2 = 0 THEN q ELSE q + 1

\* round(x, 2) of x thousandths, in hundredths
Round2(v) == RoundLastDigit(v)

\* round(x, 4) of x hundred-thousandths, in ten-thousandths; round(nan, 4) is nan
Round4(cell) == IF notna(cell) THEN Some(RoundLastDigit(cell[1])) ELSE Missing

\* str.lower() on the characters the names are made of
lower(c) == CASE c = "A" -> "a" [] c = "B" -> "b" [] OTHER -> c

casefold(str) == [i \in DOMAIN str |-> lower(str[i])]

\* Series.str.contains(pat, case=False, na=False) for a pattern of plain characters
contains(name, pat) ==
    \E i \in 0..(Len(name) - Len(pat)) :
        SubSeq(casefold(name), i + 1, i + Len(pat)) = casefold(pat)

\* df.dropna(subset=['Value'])
dropna_value(df) == SelectSeq(df, LAMBDA r : notna(r.value))

\* a may stand before b after df.sort_values('Value', ascending=False): NaN last
MayPrecede(a, b) ==
    \/ ~notna(b.value)
    \/ notna(a.value) /\ a.value[1] >= b.value[1]

\* The orders sort_values (quicksort, not stable) can leave the rows in
sort_values_desc(df) ==
    {[i \in 1..Len(df) |-> df[perm[i]]] :
        perm \in {q \in Permutations(1..Len(df)) :
                    \A i, j \in 1..Len(df) : i < j => MayPrecede(df[q[i]], df[q[j]])}}

head(df, n) == SubSeq(df, 1, IF n < Len(df) THEN n ELSE Len(df))

RemoveAt(df, i) == SubSeq(df, 1, i - 1) \o SubSeq(df, i + 1, Len(df))

\* the row Series.nlargest picks first: the greatest value, the earliest among equals
ArgMaxFirst(df) ==
    CHOOSE i \in 1..Len(df) :
        /\ \A j \in 1..Len(df) : df[j].value[1] <= df[i].value[1]
        /\ \A j \in 1..(i - 1) : df[j].value[1] < df[i].value[1]

ArgMinLast(df) ==
    CHOOSE i \in 1..Len(df) :
        /\ \A j \in 1..Len(df) : df[j].value[1] >= df[i].value[1]
        /\ \A j \in (i + 1)..Len(df) : df[j].value[1] > df[i].value[1]

\* the row Series.nsmallest picks first: the least value, the earliest among equals
ArgMinFirst(df) ==
    CHOOSE i \in 1..Len(df) :
        /\ \A j \in 1..Len(df) : df[j].value[1] >= df[i].value[1]
        /\ \A j \in 1..(i - 1) : df[j].value[1] > df[i].value[1]

nlargest_unsorted(df, n) == head(df, n)

\* df.nlargest(n, 'Value'), keep='first'
RECURSIVE nlargest(_, _)
nlargest(df, n) ==
    IF n = 0 \/ df = <<>> THEN <<>>
    ELSE LET i == ArgMaxFirst(df)
         IN  <<df[i]>> \o nlargest(RemoveAt(df, i), n - 1)

RECURSIVE nsmallest_keep_last(_, _)
nsmallest_keep_last(df, n) ==
    IF n = 0 \/ df = <<>> THEN <<>>
    ELSE LET i == ArgMinLast(df)
         IN  <<df[i]>> \o nsmallest_keep_last(RemoveAt(df, i), n - 1)

\* df.nsmallest(n, 'Value'), keep='first'
RECURSIVE nsmallest(_, _)
nsmallest(df, n) ==
    IF n = 0 \/ df = <<>> THEN <<>>
    ELSE LET i == ArgMinFirst(df)
         IN  <<df[i]>> \o nsmallest(RemoveAt(df, i), n - 1)

RECURSIVE SumDenominators(_)
SumDenominators(df) ==
    IF df = <<>> THEN 0
    ELSE (IF notna(Head(df).denom) THEN Head(df).denom[1] ELSE 0) + SumDenominators(Tail(df))

\* HTTPException(status_code=404, ...) raised by filter_data inside handler op
Halted(op, area_type, time_period, fd) ==
    [op |-> op, status |-> fd.status, detail |-> fd.detail,
     area_type |-> area_type, time_period |-> time_period]

\* the body of get_data once the dataset is at hand (lines 216-246)
data_responses(data, area_type, time_period, area_name_contains, min_value, max_value, limit) ==
    LET fd == filter_data(data, area_type, time_period)
        named == IF area_name_contains # Missing /\ area_name_contains[1] # <<>>
                   THEN SelectSeq(fd.df, LAMBDA r : contains(r.name, area_name_contains[1]))
                   ELSE fd.df
        above == IF min_value # Missing
                   THEN SelectSeq(named, LAMBDA r : notna(r.value) /\ r.value[1] >= min_value[1])
                   ELSE named
        below == IF max_value # Missing
                   THEN SelectSeq(above, LAMBDA r : notna(r.value) /\ r.value[1] <= max_value[1])
                   ELSE above
    IN  IF fd.status # 200
          THEN {Halted("data", area_type, time_period, fd)}
          ELSE {LET df == IF limit # Missing THEN head(sorted, limit[1]) ELSE sorted
                    records == [i \in 1..Len(df) |->
                                  [area_code |-> df[i].code,
                                   area_name |-> df[i].name,
                                   value |-> IF notna(df[i].value)
                                               THEN Some(Round2(df[i].value[1])) ELSE Missing,
                                   count |-> df[i].count,
                                   denominator |-> df[i].denom]]
                IN  [op |-> "data", status |-> 200, area_type |-> area_type,
                     time_period |-> time_period, period |-> fd.period,
                     count |-> Len(records), data |-> records,
                     area_name_contains |-> area_name_contains,
                     min_value |-> min_value, max_value |-> max_value, limit |-> limit]
                : sorted \in sort_values_desc(below)}

\* the body of get_summary once the dataset is at hand (lines 260-278); of the
\* statistics block min and max are kept
summary_response(data, area_type, time_period) ==
    LET fd == filter_data(data, area_type, time_period)
        values == dropna_value(fd.df)
        least == nsmallest(values, 1)
        greatest == nlargest(values, 1)
    IN  IF fd.status # 200
          THEN Halted("summary", area_type, time_period, fd)
          ELSE [op |-> "summary", status |-> 200, area_type |-> area_type,
                time_period |-> time_period, period |-> fd.period,
                areas_count |-> Len(values),
                total_patients |-> SumDenominators(fd.df),
                min |-> IF values # <<>> THEN Some(Round2(least[1].value[1])) ELSE Missing,
                max |-> IF values # <<>> THEN Some(Round2(greatest[1].value[1])) ELSE Missing]

\* the body of get_rankings once the dataset is at hand (lines 294-318)
rankings_response(data, area_type, time_period, n, order) ==
    LET fd == filter_data(data, area_type, time_period)
        complete == dropna_value(fd.df)
        df == IF order = "top" THEN nlargest(complete, n) ELSE nsmallest(complete, n)
        rankings == [rank \in 1..Len(df) |->
                       [rank |-> rank,
                        area_code |-> df[rank].code,
                        area_name |-> df[rank].name,
                        value |-> Round2(df[rank].value[1]),
                        patient_count |-> df[rank].denom]]
    IN  IF fd.status # 200
          THEN Halted("rankings", area_type, time_period, fd)
          ELSE [op |-> "rankings", status |-> 200, area_type |-> area_type,
                time_period |-> time_period, period |-> fd.period,
                order |-> order, n |-> n, rankings |-> rankings]

----------------------------------------------------------------------------
(* SpecAnalysis: /data, /summary and /rankings on datasets of one area     *)
(* type and time period whose rows differ in name and value.               *)

\* "2023/24"
Period2023 == <<50, 48, 50, 51, 47, 50, 52>>

AnalysisNames == {<<"A", "b">>, <<"b">>}

\* 12.341 and 12.346 per cent, either side of the value filters' 12.344
AnalysisValues == {Missing, Some(12341), Some(12346)}

AnalysisDatasets ==
    {[i \in DOMAIN f |-> Row(i, f[i][1], "ICBs", Period2023, f[i][2], Some(100))] :
        f \in SeqsUpTo(AnalysisNames \X AnalysisValues, MaxRows)}

\* (area_type, time_period) of a request: served, no such area type, no such period
AnalysisRequests == {<<"ICBs", Missing>>, <<"England", Missing>>, <<"ICBs", Some(AbsentPeriod)>>}

\* n of /rankings: Query(10, ge=1, le=100)
AnalysisNs == {1, 100}

Orders == {"top", "bottom"}

get_data ==
    /\ \E rq \in AnalysisRequests,
          pat \in {Missing, Some(<<>>), Some(<<"a">>)},
          lo \in {Missing, Some(12344)}, hi \in {Missing, Some(12344)},
          limit \in {Missing, Some(1)} :
            \E got \in indicator_data : Respond("data", got, data_responses(got.rows, rq[1], rq[2], pat, lo, hi, limit))
    /\ UNCHANGED seenLatest

get_summary ==
    /\ \E rq \in AnalysisRequests :
          \E got \in indicator_data : Respond("summary", got, {summary_response(got.rows, rq[1], rq[2])})
    /\ UNCHANGED seenLatest

\* /rankings with its parameters drawn from Requests and Ns
rankings(Requests, Ns) ==
    /\ \E rq \in Requests, n \in Ns, order \in Orders :
          \E got \in indicator_data : Respond("rankings", got, {rankings_response(got.rows, rq[1], rq[2], n, order)})
    /\ UNCHANGED seenLatest

get_rankings == rankings(AnalysisRequests, AnalysisNs)

InitAnalysis ==
    /\ InitCache
    /\ InitThreads
    /\ source \in AnalysisDatasets
    /\ resp = NoResp
    /\ seenLatest = [a \in AreaTypes |-> Missing]

NextAnalysis == get_data \/ get_summary \/ get_rankings

SpecAnalysis == InitAnalysis /\ [][NextAnalysis]_vars

\* rows of the dataset served that filter_data hands to the handler of the latest
\* request: those of its area type and of the time period asked for or defaulted to
Filtered ==
    {i \in RowsOfType : resp.time_period = Missing \/ Some(source[i].period) = resp.time_period}

\* the rows of Filtered that pass the /data filters of the latest request
Listed ==
    {i \in Filtered :
        /\ (resp.area_name_contains \in {Missing, Some(<<>>)}
              \/ contains(source[i].name, resp.area_name_contains[1]))
        /\ resp.min_value # Missing =>
              (source[i].value # Missing /\ source[i].value[1] >= resp.min_value[1])
        /\ resp.max_value # Missing =>
              (source[i].value # Missing /\ source[i].value[1] <= resp.max_value[1])}

Complete == {i \in Filtered : source[i].value # Missing}

Min(a, b) == IF a < b THEN a ELSE b

----------------------------------------------------------------------------
(* SpecRankings: /rankings on datasets whose rows differ in value.         *)

\* 12.341, 12.344 and 12.346 per cent; the first two round to 12.34
RankingValues == {Missing, Some(12341), Some(12344), Some(12346)}

RankingDatasets ==
    {[i \in DOMAIN f |-> Row(i, <<"a">>, "ICBs", Period2023, f[i], Some(100))] :
        f \in SeqsUpTo(RankingValues, MaxRankingRows)}

RankingNs == {1, 2, 3, 100}

get_rankings_n == rankings(AnalysisRequests, RankingNs)

InitRankings ==
    /\ InitCache
    /\ InitThreads
    /\ source \in RankingDatasets
    /\ resp = NoResp
    /\ seenLatest = [a \in AreaTypes |-> Missing]

SpecRankings == InitRankings /\ [][get_rankings_n]_vars

Returned == {resp.rankings[j].area_code : j \in 1..Len(resp.rankings)}

\* C8: a /rankings response lists min(n, rows with a value) entries, ranked 1..k in
\* order, none without a value, values non-increasing (top) or non-decreasing (bottom),
\* and no row left out is better than a row returned.
C8_RankingsShape ==
    (resp.op = "rankings" /\ resp.status = 200) =>
        LET k == Len(resp.rankings)
            better(a, b) == IF resp.order = "top" THEN a > b ELSE a < b
        IN  /\ k = Min(resp.n, Cardinality(Complete))
            /\ Cardinality(Returned) = k
            /\ Returned \subseteq Complete
            /\ \A j \in 1..k :
                  /\ resp.rankings[j].rank = j
                  /\ resp.rankings[j].value = Round2(source[resp.rankings[j].area_code].value[1])
            /\ \A j \in 1..(k - 1) :
                  ~better(resp.rankings[j + 1].value, resp.rankings[j].value)
            /\ \A i \in Complete \ Returned : \A j \in 1..k :
                  /\ ~better(Round2(source[i].value[1]), resp.rankings[j].value)
                  /\ ~better(source[i].value[1], source[resp.rankings[j].area_code].value[1])

\* n = 2 of four rows: one without a value, one left out, two returned that tie
\* after rounding
C8_Witness ==
    /\ resp.op = "rankings"
    /\ resp.status = 200
    /\ resp.n = 2
    /\ Len(source) = 4
    /\ Cardinality(Complete) = 3
    /\ Len(resp.rankings) = 2
    /\ resp.rankings[1].value = resp.rankings[2].value
    /\ source[resp.rankings[1].area_code].value # source[resp.rankings[2].area_code].value

----------------------------------------------------------------------------
(* SpecTopBottom: /rankings?n=5 asked for the top and for the bottom of    *)
(* one dataset of up to MaxTopBottomRows rows with a value.                *)

TopBottomValues == {Some(12341), Some(12346)}

\* up to MaxTopBottomRows rows with a value, after at most one row without
TopBottomDatasets ==
    {[i \in DOMAIN f |-> Row(i, <<"a">>, "ICBs", Period2023, f[i], Some(100))] :
        f \in {lead \o g : lead \in {<<>>, <<Missing>>},
                            g \in SeqsUpTo(TopBottomValues, MaxTopBottomRows)}}

get_rankings_5 == rankings({<<"ICBs", Missing>>}, {5})

InitTopBottom ==
    /\ InitCache
    /\ InitThreads
    /\ source \in TopBottomDatasets
    /\ resp = NoResp
    /\ seenLatest = [a \in AreaTypes |-> Missing]

SpecTopBottom == InitTopBottom /\ [][get_rankings_5]_vars

Areas(r) == {r.rankings[j].area_code : j \in 1..Len(r.rankings)}

IsRanking(r, order) == r.op = "rankings" /\ r.status = 200 /\ r.order = order /\ r.n = 5

\* the fifth largest value is strictly greater than the fifth smallest: some value has
\* five rows at or below it and five rows above it
MiddleSeparates ==
    \E i \in Complete :
        /\ Cardinality({j \in Complete : source[j].value[1] <= source[i].value[1]}) >= 5
        /\ Cardinality({j \in Complete : source[j].value[1] > source[i].value[1]}) >= 5

\* C7 (as amended): the top 5 followed by the bottom 5 of the same rows share no area
\* exactly when the fifth largest value is strictly greater than the fifth smallest,
\* which takes at least 10 rows with a value, or when no row has a value; with 1 to 9
\* rows with a value they always share an area.
C7_TopBottomDisjoint ==
    [][(IsRanking(resp, "top") /\ IsRanking(resp', "bottom")) =>
          /\ (Areas(resp) \cap Areas(resp') = {}) <=> (MiddleSeparates \/ Complete = {})
          /\ MiddleSeparates => Cardinality(Complete) >= 10
          /\ (Cardinality(Complete) \in 1..9) => Areas(resp) \cap Areas(resp') # {}]_vars

\* the bottom 5 of ten rows with a value, five of them above the other five
C7_Witness ==
    /\ IsRanking(resp, "bottom")
    /\ Cardinality(Complete) = 10
    /\ MiddleSeparates
    /\ Len(resp.rankings) = 5

\* C7 as stated: with more than 5 distinct areas the top 5 and the bottom 5 are disjoint.
C7_Original ==
    [][(/\ IsRanking(resp, "top")
        /\ IsRanking(resp', "bottom")
        /\ Cardinality({source[i].code : i \in Complete}) > 5) =>
          Areas(resp) \cap Areas(resp') = {}]_vars

----------------------------------------------------------------------------
(* SpecCorrelation: /correlation on datasets whose rows differ in value    *)
(* and denominator.  r and p are in hundred-thousandths.                   *)

\* p >= 0.05 (line 344)
P_SIGNIFICANT == 5000

\* r > 0.3, r < -0.3 (lines 346 and 348)
R_STRONG == 30000

\* (Value, Denominator) of a row: either missing, or both present
CorrelationCells ==
    {<<Missing, Some(100)>>, <<Some(12341), Missing>>, <<Some(12341), Some(100)>>,
     <<Some(12341), Some(200)>>, <<Some(12346), Some(100)>>}

CorrelationDatasets ==
    {[i \in DOMAIN f |-> Row(i, <<"a">>, "ICBs", Period2023, f[i][1], f[i][2])] :
        f \in SeqsUpTo(CorrelationCells, MaxCorrelationRows)}

\* values of r and p either side of the thresholds the handler compares them with
RValues == {-30001, -30000, 30000, 30001}

PValues == {4999, 5000}

IsConstant(column) == \A i, j \in 1..Len(column) : column[i] = column[j]

\* stats.pearsonr(x, y): (nan, nan) for a constant input, else some r and p
pearsonr(x, y) ==
    IF IsConstant(x) \/ IsConstant(y)
      THEN {[r |-> Missing, p |-> Missing]}
      ELSE {[r |-> Some(r), p |-> Some(p)] : r \in RValues, p \in PValues}

\* float comparisons: every comparison with nan is False
ge(cell, c) == notna(cell) /\ cell[1] >= c
gt(cell, c) == notna(cell) /\ cell[1] > c
lt(cell, c) == notna(cell) /\ cell[1] < c

NoSignificant == "No significant relationship between population size and care quality."
Better == "Larger populations tend to have better care quality."
Worse == "Larger populations tend to have worse care quality."
Weak == "Weak relationship between population size and care quality."

interpretation_inclusive(r, p) ==
    IF ge(p, P_SIGNIFICANT) THEN NoSignificant
    ELSE IF ge(r, R_STRONG) THEN Better
    ELSE IF lt(r, 1 - R_STRONG) THEN Worse
    ELSE Weak

\* lines 344-351
interpretation(r, p) ==
    IF ge(p, P_SIGNIFICANT) THEN NoSignificant
    ELSE IF gt(r, R_STRONG) THEN Better
    ELSE IF lt(r, 0 - R_STRONG) THEN Worse
    ELSE Weak

\* the body of get_correlation once the dataset is at hand (lines 332-363)
correlation_responses(data, area_type, time_period) ==
    LET fd == filter_data(data, area_type, time_period)
        df == SelectSeq(fd.df, LAMBDA row : notna(row.value) /\ notna(row.denom))
        x == [i \in 1..Len(df) |-> df[i].denom[1]]
        y == [i \in 1..Len(df) |-> df[i].value[1]]
    IN  IF fd.status # 200
          THEN {Halted("correlation", area_type, time_period, fd)}
        ELSE IF Len(df) < 3
          THEN {[op |-> "correlation", status |-> 400,
                 detail |-> <<"Insufficient data for correlation analysis">>,
                 area_type |-> area_type, time_period |-> time_period]}
        ELSE {[op |-> "correlation", status |-> 200, area_type |-> area_type,
               time_period |-> time_period, period |-> fd.period,
               r |-> Round4(rp.r), p_value |-> Round4(rp.p),
               significant |-> lt(rp.p, P_SIGNIFICANT),
               interpretation |-> interpretation(rp.r, rp.p),
               computed |-> rp]
              : rp \in pearsonr(x, y)}

get_correlation ==
    /\ \E rq \in AnalysisRequests :
          \E got \in indicator_data : Respond("correlation", got, correlation_responses(got.rows, rq[1], rq[2]))
    /\ UNCHANGED seenLatest

InitCorrelation ==
    /\ InitCache
    /\ InitThreads
    /\ source \in CorrelationDatasets
    /\ resp = NoResp
    /\ seenLatest = [a \in AreaTypes |-> Missing]

SpecCorrelation == InitCorrelation /\ [][get_correlation]_vars

\* rows handed over by filter_data with both value and denominator present
Paired == {i \in Filtered : source[i].value # Missing /\ source[i].denom # Missing}

\* C9 (as amended): fewer than 3 paired rows is InsufficientData (400), 3 or more never
\* is; the interpretation follows (r, p) by the four rules; the significant flag is
\* p < 0.05, which is "interpretation is not 'no significant relationship'" when p is a
\* number, while for the (nan, nan) of a constant column the handler computes "weak
\* relationship" with significant false.
C9_CorrelationOutcome ==
    (resp.op = "correlation" /\ resp.status \notin {404, 500}) =>
        /\ resp.status \in {200, 400}
        /\ resp.status = 400 <=> Cardinality(Paired) < 3
        /\ resp.status = 200 =>
              LET r == resp.computed.r
                  p == resp.computed.p
                  number == p # Missing
              IN  /\ number => r # Missing
                  /\ resp.interpretation = NoSignificant <=> (number /\ p[1] >= 5000)
                  /\ resp.interpretation = Better <=>
                        (number /\ p[1] < 5000 /\ r[1] > 30000)
                  /\ resp.interpretation = Worse <=>
                        (number /\ p[1] < 5000 /\ r[1] < -30000)
                  /\ resp.interpretation = Weak <=>
                        (~number \/ (p[1] < 5000 /\ r[1] >= -30000 /\ r[1] <= 30000))
                  /\ resp.significant <=> (number /\ p[1] < 5000)
                  /\ number => (resp.significant <=> resp.interpretation # NoSignificant)
                  /\ ~number => (resp.interpretation = Weak /\ ~resp.significant)

\* four paired rows, p just under 0.05 and r exactly 0.3: a weak, significant relationship
C9_Witness ==
    /\ resp.op = "correlation"
    /\ resp.status = 200
    /\ Cardinality(Paired) = 4
    /\ resp.computed = [r |-> Some(30000), p |-> Some(4999)]
    /\ resp.interpretation = Weak
    /\ resp.significant

\* C9 as stated: the significant flag is true exactly when the interpretation is not
\* "no significant relationship".
C9_Original ==
    (resp.op = "correlation" /\ resp.status \notin {404, 500}) =>
        /\ resp.status = 400 <=> Cardinality(Paired) < 3
        /\ resp.status = 200 =>
              /\ resp.interpretation = NoSignificant <=> ge(resp.computed.p, 5000)
              /\ resp.interpretation = Better <=>
                    (lt(resp.computed.p, 5000) /\ gt(resp.computed.r, 30000))
              /\ resp.interpretation = Worse <=>
                    (lt(resp.computed.p, 5000) /\ lt(resp.computed.r, -30000))
              /\ resp.significant <=> resp.interpretation # NoSignificant

----------------------------------------------------------------------------
(* Claims about the cache *)

Getters == {"get_indicator_data", "get_boundaries"}

\* C1 (as amended): in a sequential run, once a getter has returned successfully for a
\* key, every later call for it before the next clear_cache returns that same dataset
\* without an upstream call, and at most one upstream call per key SUCCEEDS between two
\* clears (failed calls store nothing and may be repeated).
C1_CachedUntilCleared ==
    /\ \A k \in Keys : okFetches[k] <= 1
    /\ (last.op \in Getters /\ last.served) =>
          /\ last.outcome = "ok"
          /\ last.attempts = 0
          /\ last.result = firstRet[last.key]
          /\ cache = last.before

\* a cached hit on an indicator whose first upstream call in this interval had failed
C1_Witness ==
    /\ last.op = "get_indicator_data"
    /\ last.served
    /\ last.outcome = "ok"
    /\ fetches[last.key] = 2
    /\ okFetches[last.key] = 1

\* C1 as stated: at most one upstream fetch per key between two clear_cache calls.
C1_Original ==
    /\ \A k \in Keys : fetches[k] <= 1
    /\ (last.op \in Getters /\ last.served) =>
          /\ last.outcome = "ok"
          /\ last.attempts = 0
          /\ last.result = firstRet[last.key]

\* C2: after clear_cache the cache is empty (health reports 0) whatever was cached, and
\* the next getter call, for any key, calls upstream before it returns.
C2_ClearDropsEverything ==
    /\ last.op = "clear_cache" => (cache = EmptyCache /\ cache_size(cache) = 0)
    /\ (last.op = "health" /\ last.firstAfterClear) => last.size = 0
    /\ (last.op \in Getters /\ last.firstAfterClear) =>
          (last.attempts = 1 /\ last.before = EmptyCache)

\* the first getter after a clear that dropped all three entries
C2_Witness ==
    /\ last.op \in Getters
    /\ last.firstAfterClear
    /\ last.outcome = "ok"
    /\ cleared = Cardinality(Keys)

\* C3: a failed upstream call fails the getter after one attempt, leaves the cache as it
\* was with no entry for the key, and the next call for the key calls upstream again.
C3_FailedFetch ==
    /\ (last.op \in Getters /\ last.outcome = "UpstreamError") =>
          /\ last.attempts = 1
          /\ last.result = Missing
          /\ cache = last.before
          /\ last.key \notin DOMAIN cache
    /\ (last.op \in Getters /\ last.prevFailed) => last.attempts = 1

\* a call that follows a failed call for its key, with another key still cached
C3_Witness ==
    /\ last.op \in Getters
    /\ last.prevFailed
    /\ last.outcome = "ok"
    /\ last.before # EmptyCache

\* C10: under any interleaving a get_indicator_data call returns a complete dataset of
\* its own id or fails with the upstream error, never otherwise, and every cache entry
\* is a complete dataset fetched for its key.
C10_NoSpuriousFailure ==
    /\ \A t \in Threads : tres[t].outcome \in {"none", "ok", "UpstreamError", "cleared"}
    /\ \A t \in Threads : tres[t].outcome = "ok" =>
          \E s \in 1..MaxSnap : tres[t].result = Some(Dataset(tres[t].key, s))
    /\ \A k \in DOMAIN cache : \E s \in 1..MaxSnap : cache[k] = Dataset(k, s)

====
